---- MODULE Spec2Model ----
(***************************************************************************)
(* Role-based project management API (src/main.py): the document store     *)
(* (roles, users, projects, parts, notifications), the capacity-checked    *)
(* assignment of parts, the inline recomputation of a project's progress   *)
(* and the overload insights.                                              *)
(*                                                                         *)
(* Spec      : every request handler is one atomic action (requests run    *)
(*             one after the other), starting from the empty store.        *)
(* SpecConc  : two requests in flight; every store read and every store    *)
(*             write of a handler is a step of its own.                    *)
(*                                                                         *)
(* Abstractions: timestamps (created_at, updated_at) and free text fields  *)
(* are not stored; progress is an exact fraction <<num, den>> in lowest    *)
(* terms instead of a float.                                               *)
(***************************************************************************)
EXTENDS Integers, Sequences, FiniteSets, TLC

\* ------------------------------------------------------------------ bounds
MaxNotes == 1
MaxReqs == 2

UserIdPool == <<"u1", "u2">>
ProjectIdPool == <<"j1">>
PartIdPool == <<"p1", "p2">>
RoleNames == {"worker"}
ReqCapacities == {<<>>, <<0>>}
RoleCapacities == {<<>>, <<1>>}
Workers == {"w1", "w2"}

\* ------------------------------------------------------- values and ids
\* Optional[int] fields: <<>> is None, <<n>> is the integer n.
None == <<>>
\* Optional[str] fields hold an id or NullId (None).
NullId == "null"
\* A 24-hex-digit id no document has, and a string that is no ObjectId.
NoSuchId == "fff"
BadId == "bad"

ActiveStatuses == {"assigned", "in_progress", "review"}
allowed == {"assigned", "in_progress", "review", "completed", "blocked"}
StatusInputs == allowed \cup {"done"}

VARIABLES role, user, project, part, notification, last, assignOk, procs,
          partWrites, progAt, started

vars == <<role, user, project, part, notification, last, assignOk, procs,
          partWrites, progAt, started>>

store == <<role, user, project, part, notification>>

\* ------------------------------------------------------------ helpers
Range(s) == {s[i] : i \in 1..Len(s)}

Ids(coll) == {coll[i]._id : i \in 1..Len(coll)}

\* bson.ObjectId(s): raises InvalidId unless s is a 24-hex-digit string.
ObjectIdValid(s) == s # BadId

\* collection.find_one(filter): the first document matching, None if none.
FindById(coll, id) ==
    LET hits == {i \in 1..Len(coll) : coll[i]._id = id}
    IN  IF hits = {} THEN None
        ELSE <<coll[CHOOSE i \in hits : \A j \in hits : i <= j]>>

FindRoleByName(roles, name) ==
    LET hits == {i \in 1..Len(roles) : roles[i].name = name}
    IN  IF hits = {} THEN None
        ELSE <<roles[CHOOSE i \in hits : \A j \in hits : i <= j]>>

RECURSIVE GCD(_, _)
GCD(a, b) == IF b = 0 THEN a ELSE GCD(b, a % b)

\* The fraction n/d (d > 0, n >= 0) in lowest terms.
Frac(n, d) == LET g == GCD(n, d) IN <<n \div g, d \div g>>

\* ---------------------------------------------------- helpers of main.py
current_active_parts_countIn_onlyAssigned(parts, user_id) ==
    Cardinality({i \in 1..Len(parts) :
                    /\ parts[i].assigned_user_id = user_id
                    /\ parts[i].status = "assigned"})

current_active_parts_countIn(parts, user_id) ==
    Cardinality({i \in 1..Len(parts) :
                    /\ parts[i].assigned_user_id = user_id
                    /\ parts[i].status \in ActiveStatuses})

current_active_parts_count(user_id) ==
    current_active_parts_countIn(part, user_id)

\* The capacity a user document resolves to, given the role collection.
ResolveDoc(u, roles) ==
    IF u.capacity = None
    THEN LET r == FindRoleByName(roles, u.role)
         IN  IF r # None /\ r[1].max_capacity # None
             THEN r[1].max_capacity[1]
             ELSE 0
    ELSE u.capacity[1]

\* get_user_capacity: [status, cap]; 500 is the unhandled InvalidId.
get_user_capacity(user_id) ==
    IF ~ObjectIdValid(user_id) THEN [status |-> 500, cap |-> 0]
    ELSE LET u == FindById(user, user_id)
         IN  IF u = None THEN [status |-> 404, cap |-> 0]
             ELSE [status |-> 200, cap |-> ResolveDoc(u[1], role)]

ProgressOf_notDone(parts) ==
    IF parts = {} THEN <<0, 1>>
    ELSE LET done == Cardinality({p \in parts : p.status # "assigned"})
             q == Frac(done, Cardinality(parts))
         IN  Frac(q[1] * 100, q[2])

\* The progress recompute_project_progress computes from the parts it
\* loaded: (done / len(parts)) * 100.0, 0.0 without parts.
ProgressOf(parts) ==
    IF parts = {} THEN <<0, 1>>
    ELSE LET done == Cardinality({p \in parts : p.status = "completed"})
             q == Frac(done, Cardinality(parts))
         IN  Frac(q[1] * 100, q[2])

PartsOf(parts, project_id) ==
    {parts[i] : i \in {j \in 1..Len(parts) : parts[j].project_id = project_id}}

\* update_one on the project collection: $set progress where _id matches.
SetProgress(projects, project_id, progress) ==
    [i \in 1..Len(projects) |->
        IF projects[i]._id = project_id
        THEN [projects[i] EXCEPT !.progress = progress]
        ELSE projects[i]]

\* recompute_project_progress on the part collection `parts`.
recompute_project_progress(projects, parts, project_id) ==
    SetProgress(projects, project_id, ProgressOf(PartsOf(parts, project_id)))

\* update_one on the part collection: $set fields where _id matches.
SetPart(parts, part_id, user_id, status) ==
    [i \in 1..Len(parts) |->
        IF parts[i]._id = part_id
        THEN [parts[i] EXCEPT !.assigned_user_id = user_id, !.status = status]
        ELSE parts[i]]

StatusAllowed_any(status) == TRUE

\* update_part_status: status in allowed.
StatusAllowed(status) == status \in allowed

Reply(op, status) == [op |-> op, status |-> status]

\* ------------------------------------------------------------------ init
Idle == [pc |-> "idle", op |-> "none", part_id |-> NullId, user_id |-> NullId,
         project_id |-> NullId, status |-> "none", cap |-> 0, active |-> 0,
         snap |-> {}, snapAt |-> 0, resp |-> 0]

Init ==
    /\ role = <<>>
    /\ user = <<>>
    /\ project = <<>>
    /\ part = <<>>
    /\ notification = <<>>
    /\ last = Reply("none", 0)
    /\ assignOk = [u \in Range(UserIdPool) |-> 0]
    /\ procs = [w \in Workers |-> Idle]
    /\ partWrites = [j \in Range(ProjectIdPool) |-> 0]
    /\ progAt = [j \in Range(ProjectIdPool) |-> 0]
    /\ started = 0

ConcUnchanged == UNCHANGED <<procs, partWrites, progAt, started>>

\* ------------------------------------------------- handlers, one request each
\* Role names are unique identifiers (a caller contract, the store does not
\* enforce it): a role is created under a name no role has yet.
create_role(name, max_capacity) ==
    /\ name \notin {role[i].name : i \in 1..Len(role)}
    /\ role' = Append(role, [name |-> name, max_capacity |-> max_capacity])
    /\ last' = Reply("create_role", 200)
    /\ UNCHANGED <<user, project, part, notification, assignOk>>
    /\ ConcUnchanged

StoredCapacity_asGiven(role_name, capacity) == capacity

\* The capacity create_user stores.
StoredCapacity(role_name, capacity) ==
    IF capacity = None
    THEN LET r == FindRoleByName(role, role_name)
         IN  IF r # None /\ r[1].max_capacity # None
             THEN <<r[1].max_capacity[1]>>
             ELSE <<0>>
    ELSE capacity

create_user(role_name, capacity) ==
    /\ Len(user) < Len(UserIdPool)
    /\ user' = Append(user, [_id |-> UserIdPool[Len(user) + 1],
                             role |-> role_name,
                             capacity |-> StoredCapacity(role_name, capacity)])
    /\ last' = Reply("create_user", 200)
    /\ UNCHANGED <<role, project, part, notification, assignOk>>
    /\ ConcUnchanged

\* The document create_project stores: CreateProjectRequest has no progress
\* field, so the stored document has none (<<>>).
NewProject(id) == [_id |-> id, progress |-> None]

create_project ==
    /\ Len(project) < Len(ProjectIdPool)
    /\ project' = Append(project, NewProject(ProjectIdPool[Len(project) + 1]))
    /\ last' = Reply("create_project", 200)
    /\ UNCHANGED <<role, user, part, notification, assignOk>>
    /\ ConcUnchanged

CapacityExceeded_strict(active, cap) == active > cap

\* The guard of assign_part: active >= cap refuses.
CapacityExceeded(active, cap) == active >= cap

CreateRefused_strict(active, cap) == active > cap

\* The guard of create_part with an assignee: active >= cap refuses.
CreateRefused(active, cap) == active >= cap

NewPart(id, project_id, assigned) ==
    [_id |-> id, project_id |-> project_id, assigned_user_id |-> assigned,
     status |-> "assigned"]

create_part(project_id, assigned) ==
    LET c == get_user_capacity(assigned)
        fail == IF assigned = NullId THEN 0
                ELSE IF c.status # 200 THEN c.status
                ELSE IF CreateRefused(current_active_parts_count(assigned), c.cap)
                     THEN 400 ELSE 0
    IN  /\ IF fail # 0
           THEN /\ last' = Reply("create_part", fail)
                /\ UNCHANGED <<part, project>>
           ELSE LET parts2 == Append(part, NewPart(PartIdPool[Len(part) + 1],
                                                   project_id, assigned))
                IN  /\ Len(part) < Len(PartIdPool)
                    /\ part' = parts2
                    /\ project' = recompute_project_progress(project, parts2,
                                                             project_id)
                    /\ last' = Reply("create_part", 200)
        /\ UNCHANGED <<role, user, notification, assignOk>>
        /\ ConcUnchanged

AssignmentNote_system(user_id) ==
    [user_id |-> user_id, type |-> "system", title |-> "New assignment"]

AssignmentNote(user_id) ==
    [user_id |-> user_id, type |-> "assignment", title |-> "New assignment"]

AssignFailure_partFirst(part_id, user_id) ==
    LET c == get_user_capacity(user_id)
    IN  IF c.status # 200 THEN c.status
        ELSE IF ~ObjectIdValid(part_id) THEN 500
        ELSE IF FindById(part, part_id) = None THEN 404
        ELSE IF CapacityExceeded(current_active_parts_count(user_id), c.cap)
             THEN 400
        ELSE 0

\* The failure assign_part ends with, 0 if it goes through: the capacity
\* lookup and guard come first, the part is looked up by the write.
AssignFailure(part_id, user_id) ==
    LET c == get_user_capacity(user_id)
    IN  IF c.status # 200 THEN c.status
        ELSE IF CapacityExceeded(current_active_parts_count(user_id), c.cap)
             THEN 400
        ELSE IF ~ObjectIdValid(part_id) THEN 500
        ELSE IF FindById(part, part_id) = None THEN 404
        ELSE 0

assign_part(part_id, user_id) ==
    LET fail == AssignFailure(part_id, user_id)
    IN  IF fail # 0
        THEN /\ last' = Reply("assign_part", fail)
             /\ UNCHANGED <<store, assignOk>>
             /\ ConcUnchanged
        ELSE LET parts2 == SetPart(part, part_id, user_id, "assigned")
                 p == FindById(parts2, part_id)[1]
             IN  /\ Len(notification) < MaxNotes
                 /\ part' = parts2
                 /\ project' = recompute_project_progress(project, parts2,
                                                          p.project_id)
                 /\ notification' = Append(notification, AssignmentNote(user_id))
                 /\ assignOk' = [assignOk EXCEPT ![user_id] = @ + 1]
                 /\ last' = Reply("assign_part", 200)
                 /\ UNCHANGED <<role, user>>
                 /\ ConcUnchanged

update_part_status(part_id, status) ==
    LET fail == IF ~StatusAllowed(status) THEN 400
                ELSE IF ~ObjectIdValid(part_id) THEN 500
                ELSE IF FindById(part, part_id) = None THEN 404
                ELSE 0
    IN  /\ IF fail # 0
           THEN /\ last' = Reply("update_part_status", fail)
                /\ UNCHANGED <<part, project>>
           ELSE LET old == FindById(part, part_id)[1]
                    parts2 == SetPart(part, part_id, old.assigned_user_id, status)
                IN  /\ part' = parts2
                    /\ project' = recompute_project_progress(project, parts2,
                                                             old.project_id)
                    /\ last' = Reply("update_part_status", 200)
        /\ UNCHANGED <<role, user, notification, assignOk>>
        /\ ConcUnchanged

user_workload(user_id) ==
    /\ last' = Reply("user_workload", get_user_capacity(user_id).status)
    /\ UNCHANGED <<store, assignOk>>
    /\ ConcUnchanged

create_notification(user_id, type) ==
    /\ Len(notification) < MaxNotes
    /\ notification' = Append(notification,
                              [user_id |-> user_id, type |-> type,
                               title |-> "custom"])
    /\ last' = Reply("create_notification", 200)
    /\ UNCHANGED <<role, user, project, part, assignOk>>
    /\ ConcUnchanged

\* system_insights: the users it lists as overloaded, with the raw stored
\* capacity (u.get('capacity') or 0).
RawCapacity(u) == IF u.capacity = None \/ u.capacity = <<0>> THEN 0 ELSE u.capacity[1]

by_user(uid) ==
    Cardinality({i \in 1..Len(part) :
                    /\ part[i].status \in ActiveStatuses
                    /\ part[i].assigned_user_id # NullId
                    /\ part[i].assigned_user_id = uid})

system_insights_overloaded ==
    {user[i]._id : i \in {k \in 1..Len(user) :
                            by_user(user[k]._id) > RawCapacity(user[k])}}

\* user_insights: the trend it reports for an existing user.
user_insights_trend(user_id) ==
    IF current_active_parts_count(user_id) <= get_user_capacity(user_id).cap
    THEN "balanced" ELSE "overloaded"

\* --------------------------------------------------------- request inputs
UserIdInputs == Ids(user) \cup {NoSuchId, BadId}
PartIdInputs == Ids(part) \cup {NoSuchId, BadId}

Next ==
    \/ \E n \in RoleNames, m \in RoleCapacities : create_role(n, m)
    \/ \E n \in RoleNames, c \in ReqCapacities : create_user(n, c)
    \/ create_project
    \/ \E j \in Ids(project), u \in UserIdInputs \cup {NullId} : create_part(j, u)
    \/ \E x \in PartIdInputs, u \in UserIdInputs : assign_part(x, u)
    \/ \E x \in PartIdInputs, s \in StatusInputs : update_part_status(x, s)
    \/ \E u \in UserIdInputs : user_workload(u)
    \/ \E u \in Ids(user), t \in {"assignment"} : create_notification(u, t)

Spec == Init /\ [][Next]_vars

\* ------------------------------------------------ requests step by step
\* SpecConc: a handler is a sequence of store reads and writes; procs[w] is
\* the request worker w runs, its position (pc) and its local variables.
\* partWrites[j] counts the writes to parts of project j, snapAt is that
\* count when a recompute loaded the parts, progAt[j] the snapAt of the
\* recompute that wrote the progress of j last.
FreshPartIds == <<"p3", "p4", "p5">>

\* The store the concurrent requests start from: one role, one user with
\* one free slot, one project with two unassigned parts (progress 0.0).
ConcStart ==
    /\ role = <<[name |-> "worker", max_capacity |-> <<1>>]>>
    /\ user = <<[_id |-> "u1", role |-> "worker", capacity |-> <<1>>]>>
    /\ project = <<[_id |-> "j1", progress |-> <<0, 1>>]>>
    /\ part = <<NewPart("p1", "j1", NullId), NewPart("p2", "j1", NullId)>>
    /\ notification = <<>>
    /\ assignOk = [u \in Range(UserIdPool) |-> 0]

InitConc ==
    /\ ConcStart
    /\ last = Reply("none", 0)
    /\ procs = [w \in Workers |-> Idle]
    /\ partWrites = [j \in Range(ProjectIdPool) |-> 0]
    /\ progAt = [j \in Range(ProjectIdPool) |-> 0]
    /\ started = 0

CanStart(w) == procs[w].pc \in {"idle", "done"} /\ started < MaxReqs

Done(w, status) == [procs EXCEPT ![w].pc = "done", ![w].resp = status]

StartAssign(w, part_id, user_id) ==
    /\ CanStart(w)
    /\ procs' = [procs EXCEPT ![w] = [Idle EXCEPT !.op = "assign_part",
                    !.part_id = part_id, !.user_id = user_id, !.pc = "cap"]]
    /\ started' = started + 1
    /\ UNCHANGED <<store, last, assignOk, partWrites, progAt>>

StartCreate(w, project_id, assigned) ==
    /\ CanStart(w)
    /\ procs' = [procs EXCEPT ![w] = [Idle EXCEPT !.op = "create_part",
                    !.project_id = project_id, !.user_id = assigned,
                    !.pc = IF assigned = NullId THEN "insert" ELSE "cap"]]
    /\ started' = started + 1
    /\ UNCHANGED <<store, last, assignOk, partWrites, progAt>>

StartUpdate(w, part_id, status) ==
    /\ CanStart(w)
    /\ procs' = [procs EXCEPT ![w] = [Idle EXCEPT !.op = "update_part_status",
                    !.part_id = part_id, !.status = status, !.pc = "status"]]
    /\ started' = started + 1
    /\ UNCHANGED <<store, last, assignOk, partWrites, progAt>>

\* get_user_capacity(user_id): the read of the user (and of its role).
ReadCapacity(w) ==
    LET c == get_user_capacity(procs[w].user_id)
    IN  /\ procs[w].pc = "cap"
        /\ procs' = IF c.status # 200 THEN Done(w, c.status)
                    ELSE [procs EXCEPT ![w].cap = c.cap, ![w].pc = "count"]
        /\ UNCHANGED <<store, last, assignOk, partWrites, progAt, started>>

\* current_active_parts_count(user_id), then the guard on what was read.
CountActive(w) ==
    LET active == current_active_parts_count(procs[w].user_id)
        refused == IF procs[w].op = "assign_part"
                   THEN CapacityExceeded(active, procs[w].cap)
                   ELSE CreateRefused(active, procs[w].cap)
    IN  /\ procs[w].pc = "count"
        /\ procs' = IF refused
                    THEN [Done(w, 400) EXCEPT ![w].active = active]
                    ELSE [procs EXCEPT ![w].active = active,
                            ![w].pc = IF procs[w].op = "assign_part"
                                      THEN "write" ELSE "insert"]
        /\ UNCHANGED <<store, last, assignOk, partWrites, progAt, started>>

\* assign_part's update_one on the part.
WritePart(w) ==
    LET x == procs[w].part_id
        hit == FindById(part, x)
    IN  /\ procs[w].pc = "write"
        /\ IF ~ObjectIdValid(x) \/ hit = None
           THEN /\ procs' = Done(w, IF ObjectIdValid(x) THEN 404 ELSE 500)
                /\ UNCHANGED <<part, partWrites>>
           ELSE /\ part' = SetPart(part, x, procs[w].user_id, "assigned")
                /\ partWrites' = [partWrites EXCEPT ![hit[1].project_id] = @ + 1]
                /\ procs' = [procs EXCEPT ![w].pc = "find"]
        /\ UNCHANGED <<role, user, project, notification, last, assignOk,
                       progAt, started>>

\* update_part_status's validation and its update_one on the part.
WriteStatus(w) ==
    LET x == procs[w].part_id
        hit == FindById(part, x)
        fail == IF ~StatusAllowed(procs[w].status) THEN 400
                ELSE IF ~ObjectIdValid(x) THEN 500
                ELSE IF hit = None THEN 404 ELSE 0
    IN  /\ procs[w].pc = "status"
        /\ IF fail # 0
           THEN /\ procs' = Done(w, fail)
                /\ UNCHANGED <<part, partWrites>>
           ELSE /\ part' = SetPart(part, x, hit[1].assigned_user_id,
                                   procs[w].status)
                /\ partWrites' = [partWrites EXCEPT ![hit[1].project_id] = @ + 1]
                /\ procs' = [procs EXCEPT ![w].pc = "find"]
        /\ UNCHANGED <<role, user, project, notification, last, assignOk,
                       progAt, started>>

\* create_part's create_document.
InsertPart(w) ==
    LET j == procs[w].project_id
        id == (PartIdPool \o FreshPartIds)[Len(part) + 1]
    IN  /\ procs[w].pc = "insert"
        /\ part' = Append(part, NewPart(id, j, procs[w].user_id))
        /\ partWrites' = [partWrites EXCEPT ![j] = @ + 1]
        /\ procs' = [procs EXCEPT ![w].part_id = id, ![w].pc = "snap"]
        /\ UNCHANGED <<role, user, project, notification, last, assignOk,
                       progAt, started>>

\* The find_one of the part written, for its project_id.
FindPart(w) ==
    LET hit == FindById(part, procs[w].part_id)
    IN  /\ procs[w].pc = "find"
        /\ procs' = [procs EXCEPT ![w].project_id = hit[1].project_id,
                                  ![w].pc = "snap"]
        /\ UNCHANGED <<store, last, assignOk, partWrites, progAt, started>>

\* recompute_project_progress: the load of the project's parts.
ReadParts(w) ==
    /\ procs[w].pc = "snap"
    /\ procs' = [procs EXCEPT ![w].snap = PartsOf(part, procs[w].project_id),
                              ![w].snapAt = partWrites[procs[w].project_id],
                              ![w].pc = "prog"]
    /\ UNCHANGED <<store, last, assignOk, partWrites, progAt, started>>

\* recompute_project_progress: the update_one of the project.
WriteProgress(w) ==
    LET j == procs[w].project_id
    IN  /\ procs[w].pc = "prog"
        /\ project' = SetProgress(project, j, ProgressOf(procs[w].snap))
        /\ progAt' = [progAt EXCEPT ![j] = procs[w].snapAt]
        /\ procs' = IF procs[w].op = "assign_part"
                    THEN [procs EXCEPT ![w].pc = "note"]
                    ELSE Done(w, 200)
        /\ UNCHANGED <<role, user, part, notification, last, assignOk,
                       partWrites, started>>

\* assign_part's create_document of the notification.
Notify(w) ==
    /\ procs[w].pc = "note"
    /\ notification' = Append(notification, AssignmentNote(procs[w].user_id))
    /\ assignOk' = [assignOk EXCEPT ![procs[w].user_id] = @ + 1]
    /\ procs' = Done(w, 200)
    /\ UNCHANGED <<role, user, project, part, last, partWrites, progAt, started>>

NextConc ==
    \E w \in Workers :
        \/ \E x \in PartIdInputs, u \in UserIdInputs : StartAssign(w, x, u)
        \/ \E j \in Ids(project), u \in UserIdInputs \cup {NullId} :
              StartCreate(w, j, u)
        \/ \E x \in PartIdInputs, s \in StatusInputs : StartUpdate(w, x, s)
        \/ ReadCapacity(w)
        \/ CountActive(w)
        \/ WritePart(w)
        \/ WriteStatus(w)
        \/ InsertPart(w)
        \/ FindPart(w)
        \/ ReadParts(w)
        \/ WriteProgress(w)
        \/ Notify(w)

SpecConc == InitConc /\ [][NextConc]_vars

AllDone == \A w \in Workers : procs[w].pc \in {"idle", "done"}

\* ---------------------------------------------------------------- claims
\* What the claims call the progress of a project: 100 * completed / total
\* over its parts, 0 without parts.
ExpectedProgress(parts, project_id) ==
    LET mine == {i \in 1..Len(parts) : parts[i].project_id = project_id}
        done == {i \in mine : parts[i].status = "completed"}
    IN  IF mine = {} THEN <<0, 1>>
        ELSE Frac(100 * Cardinality(done), Cardinality(mine))

\* What the claims call active_count(U): the parts assigned to U whose
\* status is assigned, in_progress or review.
active_count(parts, u) ==
    Cardinality({i \in 1..Len(parts) :
                    /\ parts[i].assigned_user_id = u
                    /\ parts[i].status \in {"assigned", "in_progress", "review"}})

\* The max_capacity of the role named `name`, None without such a role.
RoleDefault(roles, name) ==
    IF \E k \in 1..Len(roles) : roles[k].name = name
    THEN roles[CHOOSE k \in 1..Len(roles) : roles[k].name = name].max_capacity
    ELSE None

\* What the claims call resolve_capacity(U) for an existing user U: its own
\* capacity if set, else its role's max_capacity if set, else 0.
resolve_capacity(u) ==
    LET doc == user[CHOOSE i \in 1..Len(user) : user[i]._id = u]
    IN  IF doc.capacity # None THEN doc.capacity[1]
        ELSE IF RoleDefault(role, doc.role) # None
             THEN RoleDefault(role, doc.role)[1]
             ELSE 0

\* C1: after any sequence of requests, every project's stored progress is
\* 100 * completed / total over its parts, and 0 when it has no parts.
C1_ProgressAlwaysExact ==
    \A i \in 1..Len(project) :
        project[i].progress = ExpectedProgress(part, project[i]._id)

\* The part of C1 the handlers do keep: a project with at least one part
\* stores the exact progress, a project without parts stores no progress.
ProgressExactWithParts ==
    \A i \in 1..Len(project) :
        IF PartsOf(part, project[i]._id) = {}
        THEN project[i].progress = None
        ELSE project[i].progress = ExpectedProgress(part, project[i]._id)

\* C2: for an existing user U and an existing part X, assign_part(X, U) is
\* refused with 400 and changes nothing when active_count(U) >= capacity(U)
\* (X itself counted), and otherwise succeeds and leaves X assigned to U with
\* status 'assigned'.
C2_AssignGuard ==
    [][last'.op = "assign_part" =>
       \A x \in Ids(part), u \in Ids(user) :
          assign_part(x, u) =>
              IF active_count(part, u) >= resolve_capacity(u)
              THEN /\ last' = Reply("assign_part", 400)
                   /\ store' = store
              ELSE /\ last' = Reply("assign_part", 200)
                   /\ \E i \in 1..Len(part') :
                        /\ part'[i]._id = x
                        /\ part'[i].assigned_user_id = u
                        /\ part'[i].status = "assigned"]_vars

\* C2's case: the only user holds the only part, is at capacity, and an
\* assign_part has just been refused.
C2_Witness ==
    /\ last = Reply("assign_part", 400)
    /\ Len(user) = 1 /\ Len(part) = 1
    /\ part[1].assigned_user_id = user[1]._id
    /\ part[1].status \in ActiveStatuses
    /\ resolve_capacity(user[1]._id) = 1

\* C4: update_part_status with a status outside the five allowed values
\* fails with 400 for every part_id and changes no part and no progress; the
\* status of every part is always one of the five.
C4_InvalidStatus ==
    /\ [](\A i \in 1..Len(part) :
            part[i].status \in {"assigned", "in_progress", "review",
                                "completed", "blocked"})
    /\ [][last'.op = "update_part_status" =>
          \A x \in PartIdInputs :
            update_part_status(x, "done") =>
                /\ last' = Reply("update_part_status", 400)
                /\ part' = part
                /\ project' = project]_vars

C4_Witness ==
    /\ last = Reply("update_part_status", 400)
    /\ \E i \in 1..Len(part) : part[i].status = "completed"

\* C5: create_part with an assignee U that has active_count(U) >=
\* capacity(U) fails with 400, persists no part and recomputes nothing.
C5_CreateRefused ==
    [][last'.op = "create_part" =>
       \A j \in Ids(project), u \in Ids(user) :
          (/\ create_part(j, u)
           /\ active_count(part, u) >= resolve_capacity(u)) =>
              /\ last' = Reply("create_part", 400)
              /\ part' = part
              /\ project' = project]_vars

C5_Witness ==
    /\ last = Reply("create_part", 400)
    /\ \E i \in 1..Len(user) :
         /\ resolve_capacity(user[i]._id) > 0
         /\ active_count(part, user[i]._id) >= resolve_capacity(user[i]._id)

\* C6 as stated: for an existing user U, whatever its load, and a part_id
\* that matches no part, assign_part fails with 404 and changes nothing.
C6_NotFoundWhateverLoad ==
    [][last'.op = "assign_part" =>
       \A x \in PartIdInputs \ Ids(part), u \in Ids(user) :
          assign_part(x, u) =>
              /\ last' = Reply("assign_part", 404)
              /\ store' = store]_vars

\* C6 amended: for an existing user U and a part_id that matches no part,
\* assign_part fails with 400 when active_count(U) >= capacity(U), otherwise
\* with 404 when part_id is a well-formed id and with the unhandled InvalidId
\* error (500) when it is not; in each case nothing stored changes.
C6_NotFoundAfterGuard ==
    [][last'.op = "assign_part" =>
       \A x \in PartIdInputs \ Ids(part), u \in Ids(user) :
          assign_part(x, u) =>
              /\ store' = store
              /\ last'.op = "assign_part"
              /\ last'.status =
                   IF active_count(part, u) >= resolve_capacity(u)
                   THEN 400
                   ELSE IF x = BadId THEN 500 ELSE 404]_vars

C6_Witness ==
    /\ last = Reply("assign_part", 404)
    /\ \E i \in 1..Len(user) :
         active_count(part, user[i]._id) < resolve_capacity(user[i]._id)

\* C7: get_user_capacity returns the user's capacity if set, else the
\* max_capacity of the role named by the user if set, else 0; for a user_id
\* that matches no user it fails with 404; it changes nothing stored.
C7_CapacityOrNotFound ==
    /\ [](\A i \in 1..Len(user) :
            get_user_capacity(user[i]._id) =
                [status |-> 200, cap |-> resolve_capacity(user[i]._id)])
    /\ [][last'.op = "user_workload" =>
          \A u \in UserIdInputs :
            user_workload(u) =>
                /\ store' = store
                /\ u \notin Ids(user) => last' = Reply("user_workload", 404)]_vars

\* C8: a successful assign_part(X, U) adds exactly one notification, of
\* type 'assignment' and addressed to U, and recomputes the progress of X's
\* project; a failing one adds none; so the 'assignment' notifications that
\* assign_part addressed to U are as many as its successful calls for U.
C8_OneNotePerAssign ==
    /\ [](\A u \in Ids(user) :
            assignOk[u] =
              Cardinality({k \in 1..Len(notification) :
                   notification[k] = [user_id |-> u, type |-> "assignment",
                                      title |-> "New assignment"]}))
    /\ [][last'.op = "assign_part" =>
          IF last'.status = 200
          THEN /\ \E x \in Ids(part), u \in Ids(user) : assign_part(x, u)
               /\ \A x \in Ids(part), u \in Ids(user) :
                    assign_part(x, u) =>
                       /\ notification' =
                             Append(notification,
                                    [user_id |-> u, type |-> "assignment",
                                     title |-> "New assignment"])
                       /\ \A i \in 1..Len(part'), j \in 1..Len(project') :
                            (/\ part'[i]._id = x
                             /\ project'[j]._id = part'[i].project_id)
                            => project'[j].progress =
                                  ExpectedProgress(part', project'[j]._id)
          ELSE notification' = notification]_vars

C8_Witness ==
    /\ last = Reply("assign_part", 200)
    /\ \E u \in Ids(user) :
         /\ assignOk[u] = 1
         /\ notification = <<[user_id |-> u, type |-> "assignment",
                              title |-> "New assignment"]>>

BothAssigned(v, w) ==
    /\ v # w
    /\ procs[v].op = "assign_part" /\ procs[w].op = "assign_part"
    /\ procs[v].user_id = procs[w].user_id
    /\ procs[v].part_id # procs[w].part_id
    /\ procs[v].pc = "done" /\ procs[w].pc = "done"
    /\ procs[v].resp = 200 /\ procs[w].resp = 200
    /\ procs[v].active = procs[w].active
    /\ procs[v].cap = procs[v].active + 1
    /\ procs[w].cap = procs[v].cap

\* C3: the guard of assign_part is checked on the count the request read,
\* not on the count at the time of its write: a request past the guard has
\* read a count below the capacity, and two assign_part requests for one
\* user with one free slot, which are the only requests and have both read
\* the same count and succeeded, leave the user over capacity.
C3_CheckThenAct ==
    /\ \A w \in Workers :
         (/\ procs[w].op = "assign_part"
          /\ \/ procs[w].pc \in {"write", "find", "snap", "prog", "note"}
             \/ procs[w].pc = "done" /\ procs[w].resp = 200)
         => procs[w].active < procs[w].cap
    /\ \A v, w \in Workers :
         (BothAssigned(v, w) /\ started = 2)
         => active_count(part, procs[v].user_id)
               > resolve_capacity(procs[v].user_id)

\* C3's interleaving: both requests read the same under-capacity count,
\* both succeeded, and the user holds more active parts than its capacity.
C3_Witness ==
    \E v, w \in Workers :
        /\ BothAssigned(v, w)
        /\ active_count(part, procs[v].user_id)
              > resolve_capacity(procs[v].user_id)

\* C9 as stated: whenever all in-flight requests have completed, every
\* project's stored progress is 100 * completed / total over its current
\* parts.
C9_QuiescentExact ==
    AllDone => \A i \in 1..Len(project) :
                  project[i].progress = ExpectedProgress(part, project[i]._id)

\* C9 amended: the stored progress of a project is 100 * completed / total
\* over its current parts whenever the recompute that wrote it last had
\* loaded the parts after the last write to a part of the project (also
\* when all requests have completed); a recompute that loaded the parts
\* before another request's write stores a stale value.
C9_ExactWhenReadLast ==
    \A i \in 1..Len(project) :
        progAt[project[i]._id] = partWrites[project[i]._id]
        => project[i].progress = ExpectedProgress(part, project[i]._id)

\* C9's case: two update_part_status requests have run concurrently and
\* completed, the last progress write had loaded the final parts, and the
\* progress stored is the exact 100.
C9_Witness ==
    /\ AllDone
    /\ \A w \in Workers : procs[w].op = "update_part_status"
                          /\ procs[w].resp = 200
    /\ procs["w1"].part_id # procs["w2"].part_id
    /\ procs["w1"].snapAt = 1 /\ procs["w2"].snapAt = 2
    /\ progAt["j1"] = 2 /\ partWrites["j1"] = 2
    /\ project[1].progress = <<100, 1>>

====
